---------------------------- MODULE Spec2Model ----------------------------
(***************************************************************************)
(* Model of the voice-session engine of src/hooks/useLiveSession.ts: the   *)
(* hook's React state and refs, connect / cleanup / disconnect, the        *)
(* channel callbacks onopen / onmessage / onclose / onerror, the playback  *)
(* schedule and the two transcript buffers.                                *)
(*                                                                         *)
(* Every connect() call that passes its guard and finds the credential is  *)
(* an "attempt" a in 1..MaxAttempts.  The objects the attempt creates (its *)
(* two audio contexts, two analysers, the input stream, the script         *)
(* processor, the channel and the session promise) are named by a; a ref   *)
(* holds Null or the attempt whose object it points to.                    *)
(***************************************************************************)
EXTENDS Integers, Sequences, FiniteSets, TLC

\* ---------------------------------------------------------------- bounds
MaxAttempts == 2    \* connect() calls that create contexts, overlapping ones included
MaxConnects == 1    \* the same, in the specifications that check the confirmed claims
MaxMsgs     == 2    \* inbound channel messages delivered in one behaviour
MaxTime     == 2    \* ticks of an output context's currentTime
MaxDur      == 2    \* longest decoded chunk, in ticks
MaxFrames   == 2    \* audio frames the input hardware delivers in one behaviour

Null     == 0
Attempts == 1..MaxAttempts
MsgIds   == 1..MaxMsgs

\* The resources cleanup releases through a ref (useLiveSession.ts 18-23).
Kinds == {"tracks", "processor", "inAnalyser", "outAnalyser", "inputCtx", "outputCtx"}

VARIABLES
  \* React state (14-15): the value last given to the setter, and the value
  \* the closures of the last render captured.
  isConnected, isConnecting, rIsConnected, rIsConnecting,
  apiKey,                      \* process.env.API_KEY is set (39)
  \* refs (18-26)
  inputAudioContextRef, outputAudioContextRef, inputAnalyserRef,
  outputAnalyserRef, scriptProcessorRef, mediaStreamRef, sessionRef,
  \* connect attempts and their objects
  nAttempts,                   \* attempts started so far
  pc,                          \* where each attempt's connect() stands
  chan,                        \* each attempt's channel
  promise,                     \* each attempt's sessionPromise
  closePending,                \* .then(close) continuations registered (246)
  closeCalls,                  \* session.close() calls made (247)
  acquired,                    \* Kinds -> the attempts whose object exists
  released,                    \* Kinds -> attempt -> times it was released
  \* collaborator hooks called by the last step, in order
  calls,
  uncaught,                    \* an exception or rejection nobody handled
  lastOp,                      \* the last step: its handler and the state it met
  \* playback (27-28)
  nextStartTimeRef, audioSourcesRef,
  currentTime,                 \* each output context's clock
  nMsgs,                       \* inbound messages delivered so far
  decoding,                    \* onmessage calls suspended at the await (107)
  sources,                     \* every buffer source created, by message id
  intr,                        \* interruption events delivered so far
  handledIntr,                 \* interruption events handled so far (130-137)
  resetPending,                \* an interruption was handled, no chunk started since
  emitted,                     \* onMessage calls of the last step, in order
  \* transcription (31-32)
  currentInputTranscription, currentOutputTranscription,
  turnFrags,                   \* fragments delivered per role in the current turn
  turnMsgs,                    \* Messages emitted per role in the current turn
  turnClosed,                  \* the current turn's turn-complete was delivered
  \* capture (82-97)
  nFrames,                     \* frames the input hardware has delivered
  audioQueue,                  \* audioprocess events queued for the main thread
  captured,                    \* per attempt, the frames onaudioprocess has handled
  sendPending,                 \* per attempt, the .then(send) continuations waiting (91)
  sent,                        \* the sendRealtimeInput calls made, in order (92)
  tornInFlight                 \* the attempts that were in flight when cleanup ran

stateVars == <<isConnected, isConnecting, rIsConnected, rIsConnecting, apiKey>>
refVars   == <<inputAudioContextRef, outputAudioContextRef, inputAnalyserRef,
               outputAnalyserRef, scriptProcessorRef, mediaStreamRef, sessionRef>>
chanVars  == <<nAttempts, pc, chan, promise, closePending, closeCalls>>
resVars   == <<acquired, released>>
hookVars  == <<calls, emitted, uncaught, lastOp>>
playVars  == <<nextStartTimeRef, audioSourcesRef, currentTime, nMsgs, decoding,
               sources, intr, handledIntr, resetPending>>
bufVars   == <<currentInputTranscription, currentOutputTranscription>>
trVars    == <<bufVars, turnFrags, turnMsgs, turnClosed>>
capVars   == <<nFrames, audioQueue, captured, sendPending, sent>>
vars      == <<stateVars, refVars, chanVars, resVars, hookVars, playVars, trVars,
               capVars, tornInFlight>>

\* Mutant: the smaller of the two.
MaxAsMin(a, b) == IF a >= b THEN b ELSE a

Max(a, b) == IF a >= b THEN a ELSE b

Roles == {"user", "model"}

\* A buffer source: its state, the start time given to start(), its
\* duration and context, and (for the claims) the clock when its message
\* arrived and when it was started, the interruptions delivered by then,
\* whether it is the first source started after an interruption, and the
\* interruptions handled when its message arrived and when it was started.
NoSource == [st |-> "none", start |-> 0, dur |-> 0, ctx |-> Null, nowArr |-> 0,
             nowStart |-> 0, epA |-> 0, epS |-> 0, first |-> FALSE,
             hA |-> 0, hS |-> 0]

\* ------------------------------------------------------------- lifecycle

Hook(h, arg) == [hook |-> h, arg |-> arg]

\* The handlers that run cleanup.
TeardownOps == {"disconnect", "onclose", "onerror"}

\* What lastOp records of a step: its handler, whether the session was Active
\* when it ran, and whether it is a teardown right after a teardown.
Op(name, a) == [op |-> name, active |-> isConnected,
                again |-> name \in TeardownOps /\ lastOp.op \in TeardownOps]

Init ==
  /\ isConnected = FALSE /\ isConnecting = FALSE
  /\ rIsConnected = FALSE /\ rIsConnecting = FALSE
  /\ apiKey \in BOOLEAN
  /\ inputAudioContextRef = Null /\ outputAudioContextRef = Null
  /\ inputAnalyserRef = Null /\ outputAnalyserRef = Null
  /\ scriptProcessorRef = Null /\ mediaStreamRef = Null /\ sessionRef = Null
  /\ nAttempts = 0
  /\ pc = [a \in Attempts |-> "none"]
  /\ chan = [a \in Attempts |-> "none"]
  /\ promise = [a \in Attempts |-> "none"]
  /\ closePending = [a \in Attempts |-> 0]
  /\ closeCalls = [a \in Attempts |-> 0]
  /\ acquired = [k \in Kinds |-> {}]
  /\ released = [k \in Kinds |-> [a \in Attempts |-> 0]]
  /\ calls = <<>> /\ emitted = <<>> /\ uncaught = FALSE
  /\ lastOp = [op |-> "init", active |-> FALSE, again |-> FALSE]
  /\ nextStartTimeRef = 0 /\ audioSourcesRef = {}
  /\ currentTime = [a \in Attempts |-> 0]
  /\ nMsgs = 0 /\ decoding = {}
  /\ sources = [i \in MsgIds |-> NoSource]
  /\ intr = 0 /\ handledIntr = 0 /\ resetPending = FALSE
  /\ currentInputTranscription = "" /\ currentOutputTranscription = ""
  /\ turnFrags = [r \in Roles |-> <<>>]
  /\ turnMsgs = [r \in Roles |-> <<>>]
  /\ turnClosed = FALSE
  /\ nFrames = 0 /\ audioQueue = <<>>
  /\ captured = [a \in Attempts |-> <<>>]
  /\ sendPending = [a \in Attempts |-> <<>>]
  /\ sent = <<>>
  /\ tornInFlight = {}

\* A re-render: the closures the caller holds now see the current state.
render ==
  /\ <<rIsConnected, rIsConnecting>> # <<isConnected, isConnecting>>
  /\ rIsConnected' = isConnected /\ rIsConnecting' = isConnecting
  /\ calls' = <<>> /\ emitted' = <<>> /\ lastOp' = Op("render", Null)
  /\ UNCHANGED <<isConnected, isConnecting, apiKey, refVars, chanVars, resVars,
                 uncaught, playVars, trVars>>
  /\ UNCHANGED <<capVars, tornInFlight>>

\* connect, line 35: the guard reads the state its closure captured.
connectGuard == rIsConnected \/ rIsConnecting

\* connect, line 35 taken: return.
connectReturn ==
  /\ calls' = <<>>
  /\ UNCHANGED <<stateVars, refVars, chanVars, resVars>>

\* Mutant: the credential is checked after the contexts are created.
connectNoKeyLate ==
  LET a == nAttempts + 1 IN
  /\ isConnecting' = FALSE
  /\ nAttempts' = a
  /\ inputAudioContextRef' = a /\ outputAudioContextRef' = a
  /\ inputAnalyserRef' = a /\ outputAnalyserRef' = a
  /\ acquired' = [k \in Kinds |->
        IF k \in {"inputCtx", "outputCtx", "inAnalyser", "outAnalyser"}
        THEN acquired[k] \cup {a} ELSE acquired[k]]
  /\ calls' = <<Hook("onError", "API Key not found")>>
  /\ UNCHANGED <<isConnected, rIsConnected, rIsConnecting, apiKey,
                 scriptProcessorRef, mediaStreamRef, sessionRef,
                 pc, chan, promise, closePending, closeCalls, released>>

\* connect, lines 36-40 and the catch 213-217: no credential.
connectNoKey ==
  /\ isConnecting' = FALSE
  /\ calls' = <<Hook("onError", "API Key not found")>>
  /\ UNCHANGED <<isConnected, rIsConnected, rIsConnecting, apiKey, refVars,
                 chanVars, resVars>>

\* connect, lines 36-65: contexts and analysers, up to the await of getUserMedia.
connectSetup(limit) ==
  LET a == nAttempts + 1 IN
  /\ nAttempts < limit
  /\ isConnecting' = TRUE
  /\ nAttempts' = a
  /\ inputAudioContextRef' = a /\ outputAudioContextRef' = a
  /\ inputAnalyserRef' = a /\ outputAnalyserRef' = a
  /\ acquired' = [k \in Kinds |->
        IF k \in {"inputCtx", "outputCtx", "inAnalyser", "outAnalyser"}
        THEN acquired[k] \cup {a} ELSE acquired[k]]
  /\ pc' = [pc EXCEPT ![a] = "awaitMedia"]
  /\ calls' = <<>>
  /\ UNCHANGED <<isConnected, rIsConnected, rIsConnecting, apiKey,
                 scriptProcessorRef, mediaStreamRef, sessionRef,
                 chan, promise, closePending, closeCalls, released>>

connect(limit) ==
  /\ lastOp' = Op("connect", Null)
  /\ emitted' = <<>>
  /\ IF connectGuard THEN connectReturn
     ELSE IF ~apiKey THEN connectNoKey
     ELSE connectSetup(limit)
  /\ UNCHANGED <<uncaught, playVars, trVars>>
  /\ UNCHANGED <<capVars, tornInFlight>>

\* connect, lines 65-68 and 211: getUserMedia resolved; the channel is opened.
connectResume(a) ==
  /\ pc[a] = "awaitMedia"
  /\ pc' = [pc EXCEPT ![a] = "done"]
  /\ mediaStreamRef' = a
  /\ acquired' = [acquired EXCEPT !["tracks"] = @ \cup {a}]
  /\ chan' = [chan EXCEPT ![a] = "opening"]
  /\ promise' = [promise EXCEPT ![a] = "pending"]
  /\ sessionRef' = a
  /\ calls' = <<>> /\ emitted' = <<>> /\ lastOp' = Op("connectResume", a)
  /\ UNCHANGED <<stateVars, inputAudioContextRef, outputAudioContextRef,
                 inputAnalyserRef, outputAnalyserRef, scriptProcessorRef,
                 nAttempts, closePending, closeCalls, released, uncaught,
                 playVars, trVars>>
  /\ UNCHANGED <<capVars, tornInFlight>>

\* connect, lines 65 and 213-217: getUserMedia rejected; the catch block.
connectCatch(a) ==
  /\ pc[a] = "awaitMedia"
  /\ pc' = [pc EXCEPT ![a] = "failed"]
  /\ isConnecting' = FALSE
  /\ calls' = <<Hook("onError", "getUserMedia")>>
  /\ emitted' = <<>> /\ lastOp' = Op("connectCatch", a)
  /\ UNCHANGED <<isConnected, rIsConnected, rIsConnecting, apiKey, refVars,
                 nAttempts, chan, promise, closePending, closeCalls, resVars,
                 uncaught, playVars, trVars>>
  /\ UNCHANGED <<capVars, tornInFlight>>

\* The object a ref of kind k points to.
RefOf(k) ==
  CASE k = "tracks"      -> mediaStreamRef
    [] k = "processor"   -> scriptProcessorRef
    [] k = "inAnalyser"  -> inputAnalyserRef
    [] k = "outAnalyser" -> outputAnalyserRef
    [] k = "inputCtx"    -> inputAudioContextRef
    [] k = "outputCtx"   -> outputAudioContextRef

\* cleanup, lines 225-234: ref.current?.release() on each ref; a null ref
\* skips its call.
releaseRefs ==
  released' = [k \in Kinds |-> [a \in Attempts |->
                 IF RefOf(k) = a THEN released[k][a] + 1 ELSE released[k][a]]]

\* Mutant: the stream ref is not cleared.
clearRefsKeepStream ==
  /\ mediaStreamRef' = mediaStreamRef /\ scriptProcessorRef' = Null
  /\ inputAudioContextRef' = Null /\ outputAudioContextRef' = Null
  /\ inputAnalyserRef' = Null /\ outputAnalyserRef' = Null

\* cleanup, lines 237-242.
clearRefs ==
  /\ mediaStreamRef' = Null /\ scriptProcessorRef' = Null
  /\ inputAudioContextRef' = Null /\ outputAudioContextRef' = Null
  /\ inputAnalyserRef' = Null /\ outputAnalyserRef' = Null

\* cleanup, lines 245-250: close the session once its promise resolves.
closeSession ==
  /\ closePending' = IF sessionRef # Null
                     THEN [closePending EXCEPT ![sessionRef] = @ + 1]
                     ELSE closePending
  /\ sessionRef' = Null

\* Attempt a's connect() waits for the input device or for the channel to
\* open.
InFlight(a) == pc[a] = "awaitMedia" \/ chan[a] = "opening"

\* cleanup, lines 220-253; before are the hooks its caller called first.
cleanup(before) ==
  /\ isConnected' = FALSE /\ isConnecting' = FALSE
  /\ releaseRefs
  /\ clearRefs
  /\ closeSession
  /\ calls' = Append(before, Hook("onDisconnect", ""))
  /\ tornInFlight' = tornInFlight \cup {a \in Attempts : InFlight(a)}
  /\ emitted' = <<>>
  /\ UNCHANGED <<rIsConnected, rIsConnecting, apiKey, nAttempts, pc, promise,
                 closeCalls, acquired, uncaught, playVars, trVars>>
  /\ UNCHANGED capVars

\* disconnect, lines 255-257.
disconnect ==
  /\ cleanup(<<>>)
  /\ lastOp' = Op("disconnect", Null)
  /\ UNCHANGED chan

\* onopen, lines 71-98.
onopen(a) ==
  /\ chan[a] = "opening"
  /\ chan' = [chan EXCEPT ![a] = "open"]
  /\ promise' = [promise EXCEPT ![a] = "resolvable"]
  /\ isConnected' = TRUE /\ isConnecting' = FALSE
  /\ calls' = <<Hook("onConnect", "")>>
  /\ scriptProcessorRef' = a
  /\ acquired' = [acquired EXCEPT !["processor"] = @ \cup {a}]
  /\ turnFrags' = [r \in Roles |-> <<>>]
  /\ turnMsgs' = [r \in Roles |-> <<>>]
  /\ turnClosed' = FALSE
  /\ emitted' = <<>> /\ lastOp' = Op("onopen", a)
  /\ UNCHANGED <<rIsConnected, rIsConnecting, apiKey, inputAudioContextRef,
                 outputAudioContextRef, inputAnalyserRef, outputAnalyserRef,
                 mediaStreamRef, sessionRef, nAttempts, pc, closePending,
                 closeCalls, released, uncaught, playVars, bufVars>>
  /\ UNCHANGED <<capVars, tornInFlight>>

\* createBlob of utils/audioUtils, called at line 88: a pure function of the
\* frame's samples; one blob per frame.
createBlob(f) == [pcm |-> f]

\* session.sendRealtimeInput({ media: pcmBlob }), line 92, as the channel
\* sees it: the blob, the attempt whose channel gets it, whether the session
\* is Active at that moment, and whether the send had waited for the promise.
SendRecord(a, blob, deferred) ==
  [att |-> a, blob |-> blob, active |-> isConnected, deferred |-> deferred]

\* Mutant: the waiting sends run last-registered first.
flushSendsReversed(a) ==
  [k \in 1..Len(sendPending[a]) |->
     SendRecord(a, sendPending[a][Len(sendPending[a]) + 1 - k], TRUE)]

\* Lines 91-93 for the sends that waited: the continuations of a promise run
\* in the order they were registered.
flushSends(a) ==
  [k \in 1..Len(sendPending[a]) |-> SendRecord(a, sendPending[a][k], TRUE)]

\* The channel library resolves sessionPromise (68) once the channel is open;
\* the sends registered on it meanwhile (91) run.
sessionResolve(a) ==
  /\ promise[a] = "resolvable"
  /\ promise' = [promise EXCEPT ![a] = "resolved"]
  /\ sent' = sent \o flushSends(a)
  /\ sendPending' = [sendPending EXCEPT ![a] = <<>>]
  /\ calls' = <<>> /\ emitted' = <<>> /\ lastOp' = Op("sessionResolve", a)
  /\ UNCHANGED <<stateVars, refVars, nAttempts, pc, chan, closePending,
                 closeCalls, resVars, uncaught, playVars, trVars,
                 nFrames, audioQueue, captured, tornInFlight>>

\* cleanup, lines 246-248: the continuation registered on the promise.
sessionClose(a) ==
  /\ closePending[a] > 0
  /\ promise[a] = "resolved"
  /\ closePending' = [closePending EXCEPT ![a] = @ - 1]
  /\ closeCalls' = [closeCalls EXCEPT ![a] = @ + 1]
  /\ chan' = [chan EXCEPT ![a] = IF @ = "open" THEN "closing" ELSE @]
  /\ calls' = <<>> /\ emitted' = <<>> /\ lastOp' = Op("sessionClose", a)
  /\ UNCHANGED <<stateVars, refVars, nAttempts, pc, promise, resVars,
                 uncaught, playVars, trVars>>
  /\ UNCHANGED <<capVars, tornInFlight>>

\* onclose, lines 185-188.
onclose(a) ==
  /\ chan[a] \in {"opening", "open", "closing", "errored"}
  /\ chan' = [chan EXCEPT ![a] = "closed"]
  /\ cleanup(<<>>)
  /\ lastOp' = Op("onclose", a)

\* Mutant: the error is reported and teardown is left to the caller.
onerrorReportOnly(a) ==
  /\ chan[a] \in {"opening", "open"}
  /\ chan' = [chan EXCEPT ![a] = "errored"]
  /\ calls' = <<Hook("onError", "Connection error")>>
  /\ emitted' = <<>> /\ lastOp' = Op("onerror", a)
  /\ UNCHANGED <<stateVars, refVars, nAttempts, pc, promise, closePending,
                 closeCalls, resVars, uncaught, playVars, trVars>>
  /\ UNCHANGED <<capVars, tornInFlight>>

\* onerror, lines 189-193.
onerror(a) ==
  /\ chan[a] \in {"opening", "open"}
  /\ chan' = [chan EXCEPT ![a] = "errored"]
  /\ cleanup(<<Hook("onError", "Connection error")>>)
  /\ lastOp' = Op("onerror", a)

\* ------------------------------------------------------------- capture

\* The input hardware has a frame for the script processor of attempt a (83,
\* 96-97): the audio thread queues an audioprocess event for the main thread.
\* It does so while the processor is connected and its context is open.
audioFrame(a) ==
  /\ a \in acquired["processor"]
  /\ released["processor"][a] = 0 /\ released["inputCtx"][a] = 0
  /\ nFrames < MaxFrames
  /\ nFrames' = nFrames + 1
  /\ audioQueue' = Append(audioQueue, [att |-> a, frame |-> nFrames + 1])
  /\ calls' = <<>> /\ emitted' = <<>> /\ lastOp' = Op("audioFrame", a)
  /\ UNCHANGED <<stateVars, refVars, chanVars, resVars, uncaught, playVars,
                 trVars, captured, sendPending, sent, tornInFlight>>

\* onaudioprocess, lines 86-94: the oldest queued event is handled.  The
\* send is a continuation of sessionPromise: it runs right after the handler
\* when the promise is resolved, and waits for it otherwise.
onaudioprocess ==
  LET e    == Head(audioQueue)
      blob == createBlob(e.frame)
  IN
  /\ audioQueue # <<>>
  /\ audioQueue' = Tail(audioQueue)
  /\ captured' = [captured EXCEPT ![e.att] = Append(@, e.frame)]
  /\ IF promise[e.att] = "resolved"
     THEN /\ sent' = Append(sent, SendRecord(e.att, blob, FALSE))
          /\ UNCHANGED sendPending
     ELSE /\ sendPending' = [sendPending EXCEPT ![e.att] = Append(@, blob)]
          /\ UNCHANGED sent
  /\ calls' = <<>> /\ emitted' = <<>> /\ lastOp' = Op("onaudioprocess", e.att)
  /\ UNCHANGED <<stateVars, refVars, chanVars, resVars, uncaught, playVars,
                 trVars, nFrames, tornInFlight>>

NextLife(limit) ==
  \/ render
  \/ connect(limit)
  \/ disconnect
  \/ \E a \in Attempts : connectResume(a)
  \/ \E a \in Attempts : connectCatch(a)
  \/ \E a \in Attempts : onopen(a)
  \/ \E a \in Attempts : sessionResolve(a)
  \/ \E a \in Attempts : sessionClose(a)
  \/ \E a \in Attempts : onclose(a)
  \/ \E a \in Attempts : onerror(a)

SpecLife == Init /\ [][NextLife(MaxConnects)]_vars

SpecRace == Init /\ [][NextLife(MaxAttempts)]_vars

\* ------------------------------------------------- inbound messages

NoText == "<none>"
Frags  == {"a", "b"}

\* A LiveServerMessage as onmessage reads it (101, 130, 140, 149, 161): the
\* audio payload (none, one that decodes to dur ticks, one that fails to
\* decode), the interrupted flag, the two transcription texts, turnComplete.
Msg(au, d, i, o, u, t) ==
  [audio |-> au, dur |-> d, interrupted |-> i, outTr |-> o, inTr |-> u,
   turnComplete |-> t]

AudioParts == {<<"none", 0>>, <<"bad", 0>>} \cup {<<"ok", d>> : d \in 1..MaxDur}

PlayMsgs ==
  {Msg(p[1], p[2], i, NoText, NoText, FALSE) : p \in AudioParts, i \in BOOLEAN}
    \ {Msg("none", 0, FALSE, NoText, NoText, FALSE)}

TrMsgs ==
  {Msg("none", 0, FALSE, o, u, t) :
     o \in Frags \cup {NoText}, u \in Frags \cup {NoText}, t \in BOOLEAN}
    \ {Msg("none", 0, FALSE, NoText, NoText, FALSE)}

AllMsgs ==
  {Msg(p[1], p[2], i, o, u, t) :
     p \in AudioParts, i \in BOOLEAN,
     o \in Frags \cup {NoText}, u \in Frags \cup {NoText}, t \in BOOLEAN}

\* The playback state a handler works on, and the transcription state.
PlayNow == [ns |-> nextStartTimeRef, set |-> audioSourcesRef, src |-> sources,
            reset |-> resetPending]
TrNow   == [inBuf |-> currentInputTranscription,
            outBuf |-> currentOutputTranscription, out |-> <<>>]

Message(role, text, partial) == [role |-> role, text |-> text, isPartial |-> partial]

\* onmessage, lines 109-126: the decoded chunk d (suspended call p) is
\* started at nextStart, nextStart moves past it, the source joins the set.
scheduleChunk(P, p) ==
  [P EXCEPT
     !.src = [@ EXCEPT ![p.id] =
                [st |-> "started", start |-> P.ns, dur |-> p.m.dur, ctx |-> p.ctx,
                 nowArr |-> p.nowArr, nowStart |-> currentTime[p.ctx],
                 epA |-> p.epA, epS |-> intr, first |-> P.reset,
                 hA |-> p.hA, hS |-> handledIntr]],
     !.ns = P.ns + p.m.dur,
     !.set = P.set \cup {p.id},
     !.reset = FALSE]

\* onmessage, lines 130-137: stop every source of the set, clear it, reset
\* nextStart.
interruption(P, m) ==
  IF m.interrupted
  THEN [P EXCEPT
          !.src = [i \in MsgIds |->
                     IF i \in P.set THEN [P.src[i] EXCEPT !.st = "stopped"]
                     ELSE P.src[i]],
          !.set = {},
          !.ns = 0,
          !.reset = TRUE]
  ELSE P

\* onmessage, lines 140-158: append the fragment, emit the partial Message.
transcription(T, m) ==
  IF m.outTr # NoText
  THEN LET buf == T.outBuf \o m.outTr IN
       [T EXCEPT !.outBuf = buf, !.out = Append(@, Message("model", buf, TRUE))]
  ELSE IF m.inTr # NoText
  THEN LET buf == T.inBuf \o m.inTr IN
       [T EXCEPT !.inBuf = buf, !.out = Append(@, Message("user", buf, TRUE))]
  ELSE T

\* onmessage, lines 161-183: emit the final Messages, empty the buffers.
turnComplete(T, m) ==
  IF m.turnComplete
  THEN LET T1 == IF T.inBuf # ""
                 THEN [T EXCEPT !.out = Append(@, Message("user", T.inBuf, FALSE)),
                                !.inBuf = ""]
                 ELSE T
       IN IF T1.outBuf # ""
          THEN [T1 EXCEPT !.out = Append(@, Message("model", T1.outBuf, FALSE)),
                          !.outBuf = ""]
          ELSE T1
  ELSE T

OfRole(out, r) == SelectSeq(out, LAMBDA msg : msg.role = r)

\* onmessage, lines 129-183, run on playback state P for message m; the
\* Messages it emits join those of the turn so far, tm.
handleRest(P, m, tm) ==
  LET P1 == interruption(P, m)
      T1 == turnComplete(transcription(TrNow, m), m)
  IN /\ nextStartTimeRef' = P1.ns
     /\ audioSourcesRef' = P1.set
     /\ sources' = P1.src
     /\ resetPending' = P1.reset
     /\ handledIntr' = handledIntr + (IF m.interrupted THEN 1 ELSE 0)
     /\ currentInputTranscription' = T1.inBuf
     /\ currentOutputTranscription' = T1.outBuf
     /\ emitted' = T1.out
     /\ turnMsgs' = [r \in Roles |-> tm[r] \o OfRole(T1.out, r)]

\* The fragments message m delivers for role r.
Delivered(m, r) ==
  LET t == IF r = "model" THEN m.outTr ELSE m.inTr
  IN IF t = NoText THEN <<>> ELSE <<t>>

\* onmessage, lines 99-184, for a message m of channel a: up to the await
\* of decodeAudioData when m carries audio and an output context is held,
\* to the end otherwise.
onmessage(a, m) ==
  LET id  == nMsgs + 1
      tf0 == IF turnClosed THEN [r \in Roles |-> <<>>] ELSE turnFrags
      tm0 == IF turnClosed THEN [r \in Roles |-> <<>>] ELSE turnMsgs
  IN
  /\ chan[a] \in {"open", "closing"}
  /\ nMsgs < MaxMsgs
  /\ nMsgs' = id
  /\ intr' = intr + (IF m.interrupted THEN 1 ELSE 0)
  /\ turnFrags' = [r \in Roles |-> tf0[r] \o Delivered(m, r)]
  /\ turnClosed' = m.turnComplete
  /\ IF m.audio # "none" /\ outputAudioContextRef # Null
     THEN /\ nextStartTimeRef' =
               Max(nextStartTimeRef, currentTime[outputAudioContextRef])
          /\ decoding' = decoding \cup
               {[id |-> id, ctx |-> outputAudioContextRef, m |-> m,
                 nowArr |-> currentTime[outputAudioContextRef], epA |-> intr,
                 hA |-> handledIntr]}
          /\ turnMsgs' = tm0
          /\ emitted' = <<>>
          /\ UNCHANGED <<audioSourcesRef, sources, resetPending, handledIntr,
                         bufVars>>
     ELSE /\ handleRest(PlayNow, m, tm0)
          /\ UNCHANGED decoding
  /\ calls' = <<>> /\ lastOp' = Op("onmessage", a)
  /\ UNCHANGED <<stateVars, refVars, chanVars, resVars, uncaught, currentTime>>
  /\ UNCHANGED <<capVars, tornInFlight>>

\* decodeAudioData of utils/audioUtils, awaited at line 107: asynchronous, it
\* settles at any later time, resolved for a payload that decodes, rejected
\* for one that does not.
decodeAudioData(p, outcome) == p \in decoding /\ p.m.audio = outcome

\* onmessage, lines 107-184: decodeAudioData resolved; the suspended call p
\* schedules its chunk and runs to the end.
decodeResolved(p) ==
  /\ decodeAudioData(p, "ok")
  /\ decoding' = decoding \ {p}
  /\ handleRest(scheduleChunk(PlayNow, p), p.m, turnMsgs)
  /\ calls' = <<>> /\ lastOp' = Op("decodeResolved", Null)
  /\ UNCHANGED <<stateVars, refVars, chanVars, resVars, uncaught, currentTime,
                 nMsgs, intr, turnFrags, turnClosed>>
  /\ UNCHANGED <<capVars, tornInFlight>>

\* onmessage, line 107: decodeAudioData rejected; nothing catches it, the
\* suspended call p ends there.
decodeRejected(p) ==
  /\ decodeAudioData(p, "bad")
  /\ decoding' = decoding \ {p}
  /\ uncaught' = TRUE
  /\ calls' = <<>> /\ emitted' = <<>> /\ lastOp' = Op("decodeRejected", Null)
  /\ UNCHANGED <<stateVars, refVars, chanVars, resVars, nextStartTimeRef,
                 audioSourcesRef, currentTime, nMsgs, sources, intr,
                 handledIntr, resetPending, trVars>>
  /\ UNCHANGED <<capVars, tornInFlight>>

\* The 'ended' listener, lines 120-122, of source i: it has played to its
\* end, or was stopped.
onended(i) ==
  /\ \/ sources[i].st = "stopped"
     \/ /\ sources[i].st = "started"
        /\ currentTime[sources[i].ctx] >=
             Max(sources[i].start, sources[i].nowStart) + sources[i].dur
  /\ sources' = [sources EXCEPT ![i].st = "ended"]
  /\ audioSourcesRef' = audioSourcesRef \ {i}
  /\ calls' = <<>> /\ emitted' = <<>> /\ lastOp' = Op("onended", Null)
  /\ UNCHANGED <<stateVars, refVars, chanVars, resVars, uncaught,
                 nextStartTimeRef, currentTime, nMsgs, decoding, intr,
                 handledIntr, resetPending, trVars>>
  /\ UNCHANGED <<capVars, tornInFlight>>

\* The clock of output context c, ctx.currentTime (104), advances while the
\* context is open.
tick(c) ==
  /\ c \in acquired["outputCtx"] /\ released["outputCtx"][c] = 0
  /\ currentTime[c] < MaxTime
  /\ currentTime' = [currentTime EXCEPT ![c] = @ + 1]
  /\ calls' = <<>> /\ emitted' = <<>> /\ lastOp' = Op("tick", Null)
  /\ UNCHANGED <<stateVars, refVars, chanVars, resVars, uncaught,
                 nextStartTimeRef, audioSourcesRef, nMsgs, decoding, sources,
                 intr, handledIntr, resetPending, trVars>>
  /\ UNCHANGED <<capVars, tornInFlight>>

\* The button of App.tsx, lines 138-140, clicked once the last state change
\* has been rendered: disabled while connecting, disconnect when connected,
\* connect otherwise.
appClick(limit) ==
  /\ <<rIsConnected, rIsConnecting>> = <<isConnected, isConnecting>>
  /\ ~rIsConnecting
  /\ IF rIsConnected THEN disconnect ELSE connect(limit)

\* Playback: one session at a time, messages that carry audio and
\* interruptions.
NextPlay ==
  \/ connect(MaxConnects)
  \/ \E a \in Attempts : connectResume(a)
  \/ \E a \in Attempts : onopen(a)
  \/ \E a \in Attempts : \E m \in PlayMsgs : onmessage(a, m)
  \/ \E p \in decoding : decodeResolved(p)
  \/ \E p \in decoding : decodeRejected(p)
  \/ \E i \in MsgIds : onended(i)
  \/ \E c \in Attempts : tick(c)

SpecPlay == Init /\ [][NextPlay]_vars

\* Transcription: sessions one after another, messages that carry
\* transcription fragments and turn boundaries.
NextTr ==
  \/ render
  \/ appClick(MaxAttempts)
  \/ \E a \in Attempts : connectResume(a)
  \/ \E a \in Attempts : onopen(a)
  \/ \E a \in Attempts : \E m \in TrMsgs : onmessage(a, m)

SpecTr == Init /\ [][NextTr]_vars

\* The first connect() of the page, with the credential present.
firstConnect == nAttempts = 0 /\ apiKey /\ connect(MaxConnects)

\* The playback clock: one session; a message carries no audio, a chunk of
\* one or of MaxDur ticks or a payload that fails to decode, with or without
\* the interrupted flag.
ClockMsgs ==
  {Msg(p[1], p[2], i, NoText, NoText, FALSE) :
     p \in {<<"none", 0>>, <<"bad", 0>>, <<"ok", 1>>, <<"ok", MaxDur>>},
     i \in BOOLEAN}
    \ {Msg("none", 0, FALSE, NoText, NoText, FALSE)}

NextClock ==
  \/ firstConnect
  \/ \E a \in Attempts : connectResume(a)
  \/ \E a \in Attempts : onopen(a)
  \/ \E a \in Attempts : \E m \in ClockMsgs : onmessage(a, m)
  \/ \E p \in decoding : decodeResolved(p)
  \/ \E p \in decoding : decodeRejected(p)
  \/ \E i \in MsgIds : onended(i)
  \/ \E c \in Attempts : tick(c)

SpecClock == Init /\ [][NextClock]_vars

\* The messages that carry a decodable chunk and nothing else.
ChunkMsgs == {Msg("ok", d, FALSE, NoText, NoText, FALSE) : d \in 1..MaxDur}

\* Playback across sessions: App's button connects and disconnects, the
\* messages carry audio chunks and come from the channel of the session held
\* in sessionRef.
NextPlayTeardown ==
  \/ render
  \/ appClick(MaxAttempts)
  \/ \E a \in Attempts : connectResume(a)
  \/ \E a \in Attempts : onopen(a)
  \/ \E a \in Attempts : \E m \in ChunkMsgs : a = sessionRef /\ onmessage(a, m)
  \/ \E p \in decoding : decodeResolved(p)
  \/ \E i \in MsgIds : onended(i)
  \/ \E c \in Attempts : tick(c)

SpecPlayTeardown == Init /\ [][NextPlayTeardown]_vars

\* Transcription across sessions: App's button connects and disconnects, the
\* messages carry transcription fragments and turn boundaries and come from
\* the channel of the session held in sessionRef.
NextTrSessions ==
  \/ render
  \/ appClick(MaxAttempts)
  \/ \E a \in Attempts : connectResume(a)
  \/ \E a \in Attempts : onopen(a)
  \/ \E a \in Attempts : \E m \in TrMsgs : a = sessionRef /\ onmessage(a, m)

SpecTrSessions == Init /\ [][NextTrSessions]_vars

\* The end of a connected session: App's button connects and disconnects,
\* the channel opens and resolves its promise; once open it is closed by
\* teardown, closes or fails.
NextEnd ==
  \/ render
  \/ appClick(MaxAttempts)
  \/ \E a \in Attempts : connectResume(a)
  \/ \E a \in Attempts : onopen(a)
  \/ \E a \in Attempts : sessionResolve(a)
  \/ \E a \in Attempts : sessionClose(a)
  \/ \E a \in Attempts : chan[a] # "opening" /\ onclose(a)
  \/ \E a \in Attempts : chan[a] = "open" /\ onerror(a)

SpecEnd == Init /\ [][NextEnd]_vars

\* Capture: one session, its teardown, and the frames of the input hardware.
NextCap ==
  \/ firstConnect
  \/ disconnect
  \/ \E a \in Attempts : connectResume(a)
  \/ \E a \in Attempts : onopen(a)
  \/ \E a \in Attempts : sessionResolve(a)
  \/ \E a \in Attempts : sessionClose(a)
  \/ \E a \in Attempts : onclose(a)
  \/ \E a \in Attempts : onerror(a)
  \/ \E a \in Attempts : audioFrame(a)
  \/ onaudioprocess

SpecCap == Init /\ [][NextCap]_vars

\* Everything together.
Next ==
  \/ NextLife(MaxAttempts)
  \/ \E a \in Attempts : audioFrame(a)
  \/ onaudioprocess
  \/ \E a \in Attempts : \E m \in AllMsgs : onmessage(a, m)
  \/ \E p \in decoding : decodeResolved(p)
  \/ \E p \in decoding : decodeRejected(p)
  \/ \E i \in MsgIds : onended(i)
  \/ \E c \in Attempts : tick(c)

Spec == Init /\ [][Next]_vars

\* ------------------------------------------------------ lifecycle claims

AllRefsNull ==
  /\ inputAudioContextRef = Null /\ outputAudioContextRef = Null
  /\ inputAnalyserRef = Null /\ outputAnalyserRef = Null
  /\ scriptProcessorRef = Null /\ mediaStreamRef = Null /\ sessionRef = Null

Idle == ~isConnected /\ ~isConnecting

\* C1 (as claimed): a connect() issued while the session is Connecting or
\* Active is a no-op: it starts no attempt, creates no context or analyser,
\* changes no ref and opens no channel, also when it is issued before the
\* first call's state change has been rendered.
C1_ConnectWhileBusyIsNoOp ==
  [][(lastOp'.op = "connect" /\ (isConnected \/ isConnecting))
       => UNCHANGED <<nAttempts, acquired, refVars, chan, pc>>]_vars

\* Every owned resource has been released at most once, and each channel has
\* at most one close, registered or made.
ReleasedAtMostOnce ==
  /\ \A k \in Kinds : \A a \in Attempts : released[k][a] <= 1
  /\ \A a \in Attempts : closeCalls[a] <= 1 /\ closePending[a] + closeCalls[a] <= 1

\* C2: every owned resource is released at most once and the channel is
\* closed at most once, whatever state teardown runs on (never connected,
\* partially initialised, Active); a teardown that directly follows a
\* teardown changes no state of the engine (it does call onDisconnect
\* again); no teardown throws.
C2_TeardownIdempotent ==
  /\ []ReleasedAtMostOnce
  /\ [][lastOp'.again
          => UNCHANGED <<isConnected, isConnecting, refVars, resVars, nAttempts,
                         pc, promise, closePending, closeCalls, uncaught,
                         playVars, trVars>>]_vars
  /\ [][lastOp'.op \in TeardownOps => uncaught' = uncaught]_vars

\* C2 witness: disconnect() on a session whose channel had opened, directly
\* followed by the channel-close callback.
C2_Witness ==
  /\ lastOp.op = "onclose" /\ lastOp.again
  /\ \E a \in Attempts :
       /\ released["tracks"][a] = 1 /\ released["processor"][a] = 1
       /\ released["inputCtx"][a] = 1 /\ released["outputCtx"][a] = 1
       /\ closePending[a] + closeCalls[a] = 1

\* C7 (as claimed): once a failed getUserMedia has been surfaced by the
\* catch block, the session is Idle, every ref is null and everything the
\* attempt had acquired has been released.
C7_NothingHeldAfterFailedConnect ==
  lastOp.op = "connectCatch"
    => /\ Idle
       /\ AllRefsNull
       /\ \A k \in Kinds : \A a \in acquired[k] : released[k][a] >= 1

\* C8: connect() called from Idle without a credential calls onError once,
\* with the credential error, and nothing else; it creates no context, asks
\* for no input device, opens no channel, starts no attempt (so nothing is
\* left to retry) and leaves the session Idle.
C8_MissingCredentialFailsFast ==
  [][(lastOp'.op = "connect" /\ ~apiKey /\ Idle)
       => /\ calls' = <<Hook("onError", "API Key not found")>>
          /\ ~isConnected' /\ ~isConnecting'
          /\ UNCHANGED <<refVars, chanVars, resVars>>]_vars

C8_Witness ==
  /\ lastOp.op = "connect" /\ ~apiKey /\ Idle
  /\ calls = <<Hook("onError", "API Key not found")>>
  /\ nAttempts = 0 /\ AllRefsNull

\* C9: the channel's error callback on an Active session calls onError with
\* the connection error and then onDisconnect, leaves the session Idle with
\* every ref null, every resource the refs held released and the close of
\* the held session registered, and starts no connect attempt.
C9_ChannelErrorTearsDown ==
  [][(lastOp'.op = "onerror" /\ isConnected)
       => /\ calls' = <<Hook("onError", "Connection error"), Hook("onDisconnect", "")>>
          /\ ~isConnected' /\ ~isConnecting'
          /\ AllRefsNull'
          /\ \A k \in Kinds : RefOf(k) # Null => released'[k][RefOf(k)] = 1
          /\ sessionRef # Null => closePending'[sessionRef] + closeCalls'[sessionRef] = 1
          /\ UNCHANGED <<nAttempts, pc>>]_vars

C9_Witness ==
  /\ lastOp.op = "onerror" /\ lastOp.active
  /\ \E a \in Attempts :
       /\ chan[a] = "errored"
       /\ released["tracks"][a] = 1 /\ released["processor"][a] = 1
       /\ released["outputCtx"][a] = 1

\* Nothing of attempt a is still to run: its connect() has ended, its channel
\* is neither opening nor closing, its promise has settled and no close
\* waits on it.
Quiet(a) ==
  /\ pc[a] \in {"done", "failed"}
  /\ chan[a] \in {"none", "open", "closed", "errored"}
  /\ promise[a] # "resolvable"
  /\ ~(closePending[a] > 0 /\ promise[a] = "resolved")

\* C13 (as claimed): when teardown ran while attempt a was in flight, then
\* once nothing of a is still to run the session is Idle and holds no input
\* stream, no audio node or context and no channel handle.
C13_TeardownDuringConnect ==
  \A a \in tornInFlight :
    Quiet(a) => Idle /\ AllRefsNull

\* The session state of the spec, read off the two React states.
SessionState ==
  IF isConnected THEN "Active" ELSE IF isConnecting THEN "Connecting" ELSE "Idle"

\* C14 (as claimed): the session state changes only from Idle to Connecting
\* by connect, from Connecting to Active by the channel-open callback, from
\* Active to Idle by a teardown, and from Connecting to Idle by a setup
\* failure or a teardown; it never becomes Active from Idle.
C14_LifecycleTransitions ==
  [][SessionState' # SessionState =>
       \/ /\ SessionState = "Idle" /\ SessionState' = "Connecting"
          /\ lastOp'.op = "connect"
       \/ /\ SessionState = "Connecting" /\ SessionState' = "Active"
          /\ lastOp'.op = "onopen"
       \/ /\ SessionState = "Active" /\ SessionState' = "Idle"
          /\ lastOp'.op \in TeardownOps
       \/ /\ SessionState = "Connecting" /\ SessionState' = "Idle"
          /\ lastOp'.op \in TeardownOps \cup {"connect", "connectCatch"}]_vars

\* -------------------------------------------------------- capture claims

\* C11 (as claimed): every realtime-input send is made while the session is
\* Active; none is made after teardown has run.
C11_SendOnlyWhileActive ==
  \A k \in 1..Len(sent) : sent[k].active

\* The blobs of attempt a in a sequence of send records.
BlobsOf(recs, a) ==
  LET mine == SelectSeq(recs, LAMBDA r : r.att = a)
  IN [k \in 1..Len(mine) |-> mine[k].blob]

\* C12: the blobs handed to a channel, followed by those whose send still
\* waits for the session promise, are the blobs of the frames captured for
\* it, one per frame, in capture order; that covers the frames captured
\* before the promise has resolved.
C12_OutboundOrder ==
  \A a \in Attempts :
    BlobsOf(sent, a) \o sendPending[a]
      = [k \in 1..Len(captured[a]) |-> createBlob(captured[a][k])]

\* C12 witness: two frames were captured before the promise resolved and
\* both have been sent.
C12_Witness ==
  /\ Len(sent) >= 2
  /\ sent[1].deferred /\ sent[2].deferred
  /\ sent[1].blob # sent[2].blob

\* ------------------------------------------------------- playback claims

Scheduled(i) == sources[i].st # "none"

\* No interruption was delivered from the arrival of i's message until i
\* was started.
Uninterrupted(i) == sources[i].epS = sources[i].epA

\* C3 (as claimed): of two chunks that arrived in the order i, j with no
\* interruption meanwhile, j starts no earlier than i's start plus i's
\* duration, in whatever order their decodes complete.
C3_ScheduleFollowsArrival ==
  \A i \in MsgIds : \A j \in MsgIds :
    (/\ i < j /\ Scheduled(i) /\ Scheduled(j)
     /\ Uninterrupted(i) /\ Uninterrupted(j)
     /\ sources[i].epA = sources[j].epA)
      => sources[j].start >= sources[i].start + sources[i].dur

\* C4 (as claimed): once an interruption has been handled the active set is
\* empty and none of its sources still plays, and the first chunk started
\* after it is started at the output clock's current time (the clock read
\* when its message arrived, or when it is started).
C4_InterruptionResetsTimeline ==
  /\ resetPending => /\ audioSourcesRef = {}
                     /\ \A i \in MsgIds : sources[i].st # "started"
  /\ \A i \in MsgIds :
       (Scheduled(i) /\ sources[i].first)
         => sources[i].start \in {sources[i].nowArr, sources[i].nowStart}

\* C10 (as claimed): a failed decode is reported through onError, schedules
\* nothing, leaves the active set and nextStart alone and does not tear the
\* session down.
C10_DecodeFailureIsLocal ==
  [][lastOp'.op = "decodeRejected"
       => /\ \E k \in 1..Len(calls') : calls'[k].hook = "onError"
          /\ UNCHANGED <<audioSourcesRef, sources, nextStartTimeRef,
                         isConnected, isConnecting, refVars, resVars>>]_vars

\* C16 (as claimed): a chunk is started at a time that is no earlier than
\* the output clock at that moment, and two chunks started with no
\* interruption handled between them do not overlap, also when the clock
\* advances or other events are handled during the decode.
C16_NoSchedulingIntoThePast ==
  /\ \A i \in MsgIds :
       Scheduled(i) => sources[i].start >= sources[i].nowStart
  /\ \A i \in MsgIds : \A j \in MsgIds :
       (i # j /\ Scheduled(i) /\ Scheduled(j) /\ sources[i].epS = sources[j].epS)
         => \/ sources[j].start >= sources[i].start + sources[i].dur
            \/ sources[i].start >= sources[j].start + sources[j].dur

\* The step handles an interruption event: an onmessage call reaches lines
\* 130-137 with the interrupted flag, at once or after its decode.
HandlesInterruption ==
  \/ /\ lastOp'.op = "onmessage" /\ intr' > intr /\ decoding' = decoding
  \/ /\ lastOp'.op = "decodeResolved"
     /\ \E p \in decoding \ decoding' : p.m.interrupted

\* C17: no step lowers nextStart, except a step that handles an
\* interruption event.
C17_NextStartMonotonic ==
  [][nextStartTimeRef' < nextStartTimeRef => HandlesInterruption]_vars

\* C17 witness: a chunk was scheduled, which raised nextStart, and an
\* interruption then stopped it and reset nextStart.
C17_Witness ==
  /\ resetPending /\ nextStartTimeRef = 0
  /\ \E i \in MsgIds : sources[i].st = "stopped" /\ sources[i].dur > 0

\* Source i makes sound or is queued to: it was started, has neither ended
\* nor been stopped, and its context has not been closed.
Playing(i) ==
  /\ sources[i].st = "started"
  /\ released["outputCtx"][sources[i].ctx] = 0

C19_BargeInSilencesEarlierChunks ==
  \A i \in MsgIds :
    Scheduled(i) => sources[i].hS = sources[i].hA

\* Chunk i is the only chunk its session has got so far.
FirstOfSession(i) ==
  /\ Scheduled(i)
  /\ \A j \in MsgIds \ {i} : Scheduled(j) => sources[j].ctx # sources[i].ctx
  /\ \A p \in decoding : p.ctx # sources[i].ctx

\* C20 (as claimed): the first chunk of a session is started at the current
\* time of that session's output clock (read when its message arrived, or
\* when it is started), not at a nextStart left by an earlier session; and
\* the active source set is empty when a session becomes Active.
C20_FreshClockPerSession ==
  /\ \A i \in MsgIds :
       FirstOfSession(i)
         => sources[i].start \in {sources[i].nowArr, sources[i].nowStart}
  /\ lastOp.op = "onopen" => audioSourcesRef = {}

\* -------------------------------------------------- transcription claims

RECURSIVE Concat(_)
Concat(fs) == IF fs = <<>> THEN "" ELSE fs[1] \o Concat(Tail(fs))

Buffer(r) == IF r = "model" THEN currentOutputTranscription
             ELSE currentInputTranscription

\* The Messages a turn of role r with fragments fs is to produce: one partial
\* per fragment with the text so far, then the final one.
TurnMessages(r, fs) ==
  [k \in 1..Len(fs) |-> Message(r, Concat(SubSeq(fs, 1, k)), TRUE)]
    \o <<Message(r, Concat(fs), FALSE)>>

\* A turn-complete event has been delivered and every onmessage call has
\* run to its end.
TurnOver == turnClosed /\ decoding = {}

\* C5 (as claimed): when a turn is over, a role that received the fragments
\* f1..fn (n >= 1) in it has got exactly the n partial Messages with the
\* growing text and then the final Message, and its buffer is empty.
C5_TranscriptFinalization ==
  TurnOver =>
    \A r \in Roles :
      turnFrags[r] # <<>>
        => /\ turnMsgs[r] = TurnMessages(r, turnFrags[r])
           /\ Buffer(r) = ""

\* C6 (as claimed): when a turn is over, a role that received no fragment
\* since the last turn boundary, or since the session began, has got no
\* Message and its buffer is empty.
C6_EmptyTurnEmitsNothing ==
  TurnOver =>
    \A r \in Roles :
      turnFrags[r] = <<>> => /\ turnMsgs[r] = <<>>
                             /\ Buffer(r) = ""

\* C15 (as claimed): each role's buffer is the concatenation, in arrival
\* order, of the fragments delivered for that role since the last
\* turn-complete, whatever the interleaving of the two roles' fragments,
\* an event that carries a fragment for both roles included.
C15_BuffersLossless ==
  \A r \in Roles :
    Buffer(r) = IF turnClosed THEN "" ELSE Concat(turnFrags[r])

\* C21 (as claimed): both transcript buffers are empty when a session
\* begins, also when the previous session was torn down in the middle of a
\* turn, so that no text of the previous session reaches a Message of the
\* new one.
C21_BuffersFreshPerSession ==
  lastOp.op = "onopen"
    => currentInputTranscription = "" /\ currentOutputTranscription = ""

\* The hook h is called by the step.
Called(h) == \E k \in 1..Len(calls') : calls'[k].hook = h

\* C22 (as claimed): onDisconnect is called at most once for a session,
\* whatever combination of disconnect(), channel-close and channel-error
\* ends it, and never when no session was started: a step that calls it
\* finds a session Connecting or Active, not one already torn down.
C22_OneDisconnectPerSession ==
  [][Called("onDisconnect") => SessionState # "Idle"]_vars

=============================================================================
